---- MODULE Spec2Model ----
(***************************************************************************)
(* A model of two parts of the `domain` crate:                             *)
(*                                                                         *)
(*   - the EDNS Client Subnet option of RFC 7871                           *)
(*     (src/base/opt/rfc7871.rs): ClientSubnet::new, Parse::parse,         *)
(*     Compose::compose and the helper prefix_bytes;                       *)
(*   - the MySQL backed read-only zone (examples/other/mysql-zone.rs):     *)
(*     DatabaseReadZone's implementation of ReadableZone and the dispatch  *)
(*     on is_async() in main.                                              *)
(*                                                                         *)
(* Octets are integers 0..255.  Rust's integer overflow semantics depend   *)
(* on the build profile: with overflow checks (the default of debug and    *)
(* test builds) an overflowing subtraction or shift amount panics, without *)
(* them (the default of release builds) a subtraction wraps and a shift    *)
(* amount is reduced modulo the width of the shifted type.  The variable   *)
(* overflow_checks holds the profile of the build under observation.       *)
(***************************************************************************)
EXTENDS Integers, Sequences, FiniteSets, TLC

VARIABLES
    overflow_checks, \* build profile: TRUE iff overflow checks are compiled in
    value,           \* the ClientSubnet built by new, or None
    target,          \* the octets builder compose wrote to
    composed,        \* result of the last compose: "None", "Ok", "ShortBuf", "Panic"
    input,           \* the octets handed to the last parse
    parsed,          \* result of the last parse, or None
    db,              \* the records table of the database, a sequence of rows
    call,            \* the last ReadableZone call: its name, caller and arguments
    fetched,         \* the row the last query_async got from fetch_one, or None
    result,          \* what the last ReadableZone call returned
    visits           \* the visitor calls of the last walk, in order

codec_vars == <<overflow_checks, value, target, composed, input, parsed>>
zone_vars == <<db, call, fetched, result, visits>>
vars == <<overflow_checks, value, target, composed, input, parsed,
          db, call, fetched, result, visits>>

None == [none |-> TRUE]

\* ------------------------------------------------------------------------
\* Bounds and program constants
\* ------------------------------------------------------------------------

\* source_prefix_len and scope_prefix_len are u8
U8Max == 255

\* IpAddr::V4 holds 4 octets, IpAddr::V6 holds 16
V4Len == 4
V6Len == 16

\* capacity of Octets512, the builder of the crate's own test
Octets512 == 512

\* largest SOURCE PREFIX-LENGTH tried in wire inputs handed to parse
MaxWirePrefixLen == 136

\* longest address payload of a wire input handed to parse
MaxPayload == 17

\* smallest builder capacities tried besides Octets512 are 0..MaxSmallCap
MaxSmallCap == 8

\* ------------------------------------------------------------------------
\* Octet arithmetic
\* ------------------------------------------------------------------------

RECURSIVE AndBits(_, _, _)
AndBits(a, b, k) ==
    IF k = 0 THEN 0
    ELSE (a % 2) * (b % 2) + 2 * AndBits(a \div 2, b \div 2, k - 1)

\* `*e &= mask` on u8
BitAnd(a, b) == AndBits(a, b, 8)

RECURSIVE Pow2(_)
Pow2(n) == IF n = 0 THEN 1 ELSE 2 * Pow2(n - 1)

\* `x << n` for x: u8 and a shift amount computed at run time.  A shift amount
\* of 8 or more overflows: a panic with overflow checks, else the amount is
\* taken modulo 8.  The shifted value keeps the low 8 bits.
ShlU8(x, n) ==
    IF n >= 8
    THEN IF overflow_checks
         THEN [panic |-> TRUE, val |-> 0]
         ELSE [panic |-> FALSE, val |-> (x * Pow2(n % 8)) % 256]
    ELSE [panic |-> FALSE, val |-> (x * Pow2(n)) % 256]

\* fn prefix_bytes(bits: usize) -> (usize, u8)
prefix_bytes(bits) ==
    LET n == (bits + 7) \div 8
        sh == 8 - (bits % 8)
        m == IF sh = 0 THEN [panic |-> FALSE, val |-> 255] ELSE ShlU8(255, sh)
    IN [panic |-> m.panic, n |-> n, mask |-> m.val]

\* `prefix_bytes - 1` on usize followed by get_mut: the index of the last
\* transmitted octet (1-based here), 0 when get_mut finds nothing.  For
\* prefix_bytes = 0 the subtraction overflows: a panic with overflow checks,
\* else it wraps to usize::MAX and get_mut returns None.
LastIndex(n, len) ==
    IF n = 0
    THEN [panic |-> overflow_checks, idx |-> 0]
    ELSE [panic |-> FALSE, idx |-> IF n - 1 < len THEN n ELSE 0]

\* MaskLast without the `&=`: the last octet is left as it came
MaskLast_NoMask(buf, idx, mask) == buf

\* if let Some(e) = buf.get_mut(prefix_bytes - 1) { *e &= mask; }
MaskLast(buf, idx, mask) ==
    [i \in 1..Len(buf) |-> IF i = idx THEN BitAnd(buf[i], mask) ELSE buf[i]]

\* ------------------------------------------------------------------------
\* ClientSubnet
\* ------------------------------------------------------------------------

\* IpAddr::from([u8; 4]) and IpAddr::from([u8; 16])
IpAddr(octets) ==
    [family |-> IF Len(octets) = V4Len THEN "V4" ELSE "V6", octets |-> octets]

\* ClientSubnet::new: validates nothing
new(source_prefix_len, scope_prefix_len, addr) ==
    [source_prefix_len |-> source_prefix_len,
     scope_prefix_len |-> scope_prefix_len,
     addr |-> addr]

Err(kind, msg) == [status |-> kind, msg |-> msg]

\* One arm of the match on family in parse, for an address of `width` octets.
\* rest is what the parser still holds after the four header octets.
parse_addr(width, source_prefix_len, scope_prefix_len, pb, rest) ==
    IF pb.n > width
    THEN Err("FormError", "invalid address length in client subnet option")
    ELSE IF Len(rest) < pb.n
    THEN Err("ShortInput", "unexpected end of input")
    ELSE LET last == LastIndex(pb.n, width)
             buf == [i \in 1..width |-> IF i <= pb.n THEN rest[i] ELSE 0]
         IN IF last.panic
            THEN Err("Panic", "attempt to subtract with overflow")
            ELSE [status |-> "Ok",
                  value |-> new(source_prefix_len, scope_prefix_len,
                                IpAddr(MaskLast(buf, last.idx, pb.mask))),
                  consumed |-> 4 + pb.n]

\* <ClientSubnet as Parse>::parse
parse(octets) ==
    IF Len(octets) < 2 THEN Err("ShortInput", "unexpected end of input")
    ELSE IF Len(octets) < 3 THEN Err("ShortInput", "unexpected end of input")
    ELSE IF Len(octets) < 4 THEN Err("ShortInput", "unexpected end of input")
    ELSE LET family == octets[1] * 256 + octets[2]
             source_prefix_len == octets[3]
             scope_prefix_len == octets[4]
             pb == prefix_bytes(source_prefix_len)
             rest == SubSeq(octets, 5, Len(octets))
         IN IF pb.panic
            THEN Err("Panic", "attempt to shift left with overflow")
            ELSE IF family = 1
            THEN parse_addr(V4Len, source_prefix_len, scope_prefix_len, pb, rest)
            ELSE IF family = 2
            THEN parse_addr(V6Len, source_prefix_len, scope_prefix_len, pb, rest)
            ELSE Err("FormError", "invalid client subnet address family")

\* <ClientSubnet as Compose>::compose into an empty builder of capacity cap.
\* append_all truncates the builder back to its old length when the closure
\* returns ShortBuf; a panic leaves what was appended before it.
compose(v, cap) ==
    LET pb == prefix_bytes(v.source_prefix_len)
        family == IF v.addr.family = "V4" THEN 1 ELSE 2
        header == <<family \div 256, family % 256,
                    v.source_prefix_len, v.scope_prefix_len>>
        width == Len(v.addr.octets)
        last == LastIndex(pb.n, width)
        array == MaskLast(v.addr.octets, last.idx, pb.mask)
    IN IF pb.panic THEN [status |-> "Panic", octets |-> <<>>]
       ELSE IF cap < 2 THEN [status |-> "ShortBuf", octets |-> <<>>]
       ELSE IF cap < 3 THEN [status |-> "ShortBuf", octets |-> <<>>]
       ELSE IF cap < 4 THEN [status |-> "ShortBuf", octets |-> <<>>]
       ELSE IF last.panic THEN [status |-> "Panic", octets |-> header]
       ELSE IF pb.n > width THEN [status |-> "Panic", octets |-> header]
       ELSE IF cap < 4 + pb.n THEN [status |-> "ShortBuf", octets |-> <<>>]
       ELSE [status |-> "Ok", octets |-> header \o SubSeq(array, 1, pb.n)]

\* ------------------------------------------------------------------------
\* Inputs
\* ------------------------------------------------------------------------

Rep(x, n) == [i \in 1..n |-> x]

\* addresses handed to new
Addrs ==
    { IpAddr(<<192, 0, 2, 0>>), IpAddr(<<192, 0, 2, 255>>),
      IpAddr(<<255, 255, 255, 255>>), IpAddr(<<10, 129, 77, 1>>),
      IpAddr(Rep(255, V6Len)),
      IpAddr(<<32, 1, 13, 184>> \o Rep(0, 11) \o <<1>>),
      IpAddr(<<32, 1, 13, 184, 133, 163, 255, 255, 127, 1, 138, 46, 3, 112, 115, 52>>) }

ScopePrefixLens == {0, 24}

Capacities == (0..MaxSmallCap) \cup {Octets512}

\* address payloads of wire inputs: every prefix of a few octet strings
Payloads ==
    { SubSeq(s, 1, k) : k \in 0..MaxPayload,
        s \in { <<192, 0, 2>> \o Rep(255, MaxPayload),
                <<192, 0, 3>> \o Rep(0, MaxPayload),
                Rep(255, MaxPayload + 3) } }

\* the FAMILY field of wire inputs, as its two octets
Families == { <<0, 0>>, <<0, 1>>, <<0, 2>>, <<0, 3>>, <<1, 1>> }

WireInputs ==
    { f \o <<s, c>> \o p :
        f \in Families, s \in 0..MaxWirePrefixLen, c \in ScopePrefixLens,
        p \in Payloads }
    \cup { <<>>, <<0>>, <<0, 1>>, <<0, 1, 22>> }

\* ------------------------------------------------------------------------
\* Actions of the option codec
\* ------------------------------------------------------------------------

\* nothing has been built, composed or parsed yet
Fresh == value = None /\ composed = "None" /\ parsed = None

New ==
    /\ Fresh
    /\ \E source_prefix_len \in 0..U8Max, scope_prefix_len \in ScopePrefixLens,
          addr \in Addrs :
            value' = new(source_prefix_len, scope_prefix_len, addr)
    /\ target' = <<>>
    /\ composed' = "None"
    /\ input' = <<>>
    /\ parsed' = None
    /\ UNCHANGED <<overflow_checks, zone_vars>>

Compose ==
    /\ value # None
    /\ composed = "None"
    /\ \E cap \in Capacities :
        LET r == compose(value, cap)
        IN /\ target' = r.octets
           /\ composed' = r.status
    /\ UNCHANGED <<overflow_checks, value, input, parsed, zone_vars>>

\* parse what compose wrote
ParseComposed ==
    /\ composed = "Ok"
    /\ parsed = None
    /\ input' = target
    /\ parsed' = parse(target)
    /\ UNCHANGED <<overflow_checks, value, target, composed, zone_vars>>

\* parse octets received from elsewhere
ParseWire ==
    /\ Fresh
    /\ \E octets \in WireInputs :
        /\ input' = octets
        /\ parsed' = parse(octets)
    /\ value' = None
    /\ target' = <<>>
    /\ composed' = "None"
    /\ UNCHANGED <<overflow_checks, zone_vars>>

\* ------------------------------------------------------------------------
\* The database backed zone: names, record types and record data
\* ------------------------------------------------------------------------

\* most rows the records table holds
MaxRows == 2

\* A string holding a domain name is the sequence of its labels and dots.
\* Name::bytes_from_str: the labels between the dots; an empty label is an
\* error, one trailing dot is allowed.  A Name is the sequence of its labels.
RECURSIVE SplitLabels(_)
SplitLabels(str) ==
    IF str = <<>> THEN [ok |-> TRUE, labels |-> <<>>]
    ELSE IF Head(str) = "." THEN [ok |-> FALSE, labels |-> <<>>]
    ELSE IF Len(str) = 1 THEN [ok |-> TRUE, labels |-> str]
    ELSE IF str[2] # "." THEN [ok |-> FALSE, labels |-> <<>>]
    ELSE LET rest == SplitLabels(SubSeq(str, 3, Len(str)))
         IN [ok |-> rest.ok, labels |-> <<Head(str)>> \o rest.labels]

bytes_from_str(str) ==
    IF str = <<>> THEN [ok |-> FALSE, labels |-> <<>>] ELSE SplitLabels(str)

\* Name's Display: the labels joined by dots, no trailing dot
RECURSIVE name_to_string(_)
name_to_string(name) ==
    IF Len(name) <= 1 THEN name
    ELSE <<Head(name), ".">> \o name_to_string(Tail(name))

\* Rtype::from_str knows the mnemonics only; Rtype's Display writes them
Rtypes == {"A", "TXT"}
rtype_from_str(str) == [ok |-> str \in Rtypes, rtype |-> str]
rtype_to_string(rtype) == rtype

\* ZoneRecordData::scan over the whitespace separated tokens of the content:
\* an A record wants an IPv4 address first, a TXT record any token.
scan(rtype, tokens) ==
    IF tokens = <<>> THEN [ok |-> FALSE]
    ELSE IF rtype = "A" /\ Head(tokens) # "192.0.2.1" THEN [ok |-> FALSE]
    ELSE [ok |-> TRUE, data |-> [rtype |-> rtype, data |-> Head(tokens)]]

\* Rrset::new followed by push_data
Rrset(rtype, ttl, data) == [rtype |-> rtype, ttl |-> ttl, data |-> <<data>>]

\* Answer::new and add_answer
Answer(rcode, rrsets) == [rcode |-> rcode, answers |-> rrsets]

\* ------------------------------------------------------------------------
\* DatabaseReadZone
\* ------------------------------------------------------------------------

\* The database is taken to answer every SELECT and to hold no NULL column:
\* the connection pool and the schema are PowerDNS's and sqlx's.  A row is
\* [domain, name, rtype, content, ttl]: the name of its domains row and the
\* columns of its records row, the content already split at whitespace.

\* mk_test_zone("example.com")
apex_name == <<"example", "com">>

\* is_async as a zone served from memory answers it
is_async_false == FALSE

\* fn is_async(&self) -> bool
is_async == TRUE

\* query_matches without the condition on R.type
query_matches_any_type(row, qname, qtype) ==
    /\ row.domain = name_to_string(apex_name)
    /\ row.name = name_to_string(qname)

\* the WHERE clause of query_async's SELECT
query_matches(row, qname, qtype) ==
    /\ row.domain = name_to_string(apex_name)
    /\ row.name = name_to_string(qname)
    /\ row.rtype = rtype_to_string(qtype)

\* the WHERE clause of walk_async's SELECT
walk_matches(row) == row.domain = name_to_string(apex_name)

\* query_async once fetch_one has returned Ok(row)
query_row(row, qtype) ==
    LET scanned == scan(qtype, row.content)
    IN IF scanned.ok
       THEN Answer("NOERROR", <<Rrset(qtype, row.ttl, scanned.data)>>)
       ELSE Answer("SERVFAIL", <<>>)

\* query_async when fetch_one has returned an error
query_no_row == Answer("NXDOMAIN", <<>>)

\* walk_row with the scan error unwrapped like the owner and the type
walk_row_unwrap(row, seen) ==
    LET owner == bytes_from_str(row.name)
        rtype == rtype_from_str(row.rtype)
        scanned == scan(rtype.rtype, row.content)
    IN IF ~owner.ok \/ ~rtype.ok \/ ~scanned.ok
       THEN [panic |-> TRUE, visits |-> seen]
       ELSE [panic |-> FALSE,
             visits |-> Append(seen, [owner |-> owner.labels,
                                      rrset |-> Rrset(rtype.rtype, row.ttl, scanned.data)])]

\* the body of walk_async's loop for one row, after the visits `seen`:
\* the unwraps on the owner and the record type panic, a content that does
\* not scan is logged and skipped.
walk_row(row, seen) ==
    LET owner == bytes_from_str(row.name)
        rtype == rtype_from_str(row.rtype)
        scanned == scan(rtype.rtype, row.content)
    IN IF ~owner.ok \/ ~rtype.ok THEN [panic |-> TRUE, visits |-> seen]
       ELSE IF scanned.ok
       THEN [panic |-> FALSE,
             visits |-> Append(seen, [owner |-> owner.labels,
                                      rrset |-> Rrset(rtype.rtype, row.ttl, scanned.data)])]
       ELSE [panic |-> FALSE, visits |-> seen]

\* walk_async's loop over the rows fetch_all returned, from row i on
RECURSIVE walk_rows(_, _, _)
walk_rows(rows, i, seen) ==
    IF i > Len(rows) THEN [panic |-> FALSE, visits |-> seen]
    ELSE LET step == walk_row(rows[i], seen)
         IN IF step.panic THEN step ELSE walk_rows(rows, i + 1, step.visits)

\* ------------------------------------------------------------------------
\* Inputs of the zone
\* ------------------------------------------------------------------------

OwnerStrings ==
    { <<"example", ".", "com">>, <<"www", ".", "example", ".", "com">>,
      <<"example", ".", ".", "com">>, <<"example", ".", "org">> }

TypeStrings == {"A", "TXT", "BOGUS"}

Contents == { <<"192.0.2.1">>, <<"garbage">> }

\* rows of the zone's own domain, and rows of another domain of the database
Rows ==
    { [domain |-> <<"example", ".", "com">>, name |-> n, rtype |-> t,
       content |-> c, ttl |-> 86400] :
        n \in OwnerStrings, t \in TypeStrings, c \in Contents }
    \cup
    { [domain |-> <<"example", ".", "org">>, name |-> n, rtype |-> "A",
       content |-> <<"192.0.2.1">>, ttl |-> 3600] :
        n \in { <<"example", ".", "com">>, <<"example", ".", "org">> } }

Tables == UNION { [1..k -> Rows] : k \in 0..MaxRows }

Qnames ==
    { <<"example", "com">>, <<"www", "example", "com">>,
      <<"mail", "example", "com">>, <<"example", "org">> }

\* ------------------------------------------------------------------------
\* Actions of the zone
\* ------------------------------------------------------------------------

Idle == call = None

\* query_async: LIMIT 1 without ORDER BY hands back any one matching row
QueryAsyncAs(by, qname, qtype) ==
    LET hits == { i \in 1..Len(db) : query_matches(db[i], qname, qtype) }
    IN /\ call' = [op |-> "query_async", by |-> by, qname |-> qname, qtype |-> qtype]
       /\ \/ /\ hits = {}
             /\ fetched' = None
             /\ result' = [status |-> "Ok", answer |-> query_no_row]
          \/ \E i \in hits :
             /\ fetched' = db[i]
             /\ result' = [status |-> "Ok", answer |-> query_row(db[i], qtype)]
       /\ visits' = <<>>
       /\ UNCHANGED <<db, codec_vars>>

\* fn query: unimplemented!()
QueryAs(by, qname, qtype) ==
    /\ call' = [op |-> "query", by |-> by, qname |-> qname, qtype |-> qtype]
    /\ fetched' = None
    /\ result' = [status |-> "Panic", msg |-> "not implemented"]
    /\ visits' = <<>>
    /\ UNCHANGED <<db, codec_vars>>

QueryAsync ==
    /\ Idle
    /\ \E qname \in Qnames, qtype \in Rtypes : QueryAsyncAs("direct", qname, qtype)

Query ==
    /\ Idle
    /\ \E qname \in Qnames, qtype \in Rtypes : QueryAs("direct", qname, qtype)

WalkAsync ==
    /\ Idle
    /\ LET walked == walk_rows(SelectSeq(db, walk_matches), 1, <<>>)
       IN /\ call' = [op |-> "walk_async", by |-> "direct"]
          /\ visits' = walked.visits
          /\ result' = [status |-> IF walked.panic THEN "Panic" ELSE "Done"]
    /\ fetched' = None
    /\ UNCHANGED <<db, codec_vars>>

\* fn walk: unimplemented!()
Walk ==
    /\ Idle
    /\ call' = [op |-> "walk", by |-> "direct"]
    /\ fetched' = None
    /\ result' = [status |-> "Panic", msg |-> "not implemented"]
    /\ visits' = <<>>
    /\ UNCHANGED <<db, codec_vars>>

\* main: the query for example.com A, dispatched on is_async()
Main ==
    /\ Idle
    /\ IF is_async
       THEN QueryAsyncAs("main", <<"example", "com">>, "A")
       ELSE QueryAs("main", <<"example", "com">>, "A")

CodecIdle ==
    /\ overflow_checks = TRUE
    /\ value = None
    /\ target = <<>>
    /\ composed = "None"
    /\ input = <<>>
    /\ parsed = None

ZoneInit ==
    /\ db \in Tables
    /\ call = None
    /\ fetched = None
    /\ result = None
    /\ visits = <<>>
    /\ CodecIdle

ZoneNext ==
    \/ QueryAsync
    \/ Query
    \/ WalkAsync
    \/ Walk
    \/ Main

ZoneSpec == ZoneInit /\ [][ZoneNext]_vars

\* ------------------------------------------------------------------------
\* The option codec as a system
\* ------------------------------------------------------------------------

ZoneIdle ==
    /\ db = <<>>
    /\ call = None
    /\ fetched = None
    /\ result = None
    /\ visits = <<>>

CodecInit ==
    /\ overflow_checks \in BOOLEAN
    /\ value = None
    /\ target = <<>>
    /\ composed = "None"
    /\ input = <<>>
    /\ parsed = None
    /\ ZoneIdle

CodecNext ==
    \/ New
    \/ Compose
    \/ ParseComposed
    \/ ParseWire

CodecSpec == CodecInit /\ [][CodecNext]_vars

\* ------------------------------------------------------------------------
\* Vocabulary of the properties
\* ------------------------------------------------------------------------

\* an octet with all but its k leading bits cleared
KeepBits(octet, k) ==
    IF k >= 8 THEN octet
    ELSE IF k <= 0 THEN 0
    ELSE (octet \div Pow2(8 - k)) * Pow2(8 - k)

\* octets with every bit beyond the first `bits` bits cleared
TruncateBits(octets, bits) ==
    [i \in 1..Len(octets) |-> KeepBits(octets[i], bits - 8 * (i - 1))]

\* ceil(bits / 8)
CeilDiv8(bits) == IF bits % 8 = 0 THEN bits \div 8 ELSE bits \div 8 + 1

\* the prefix length fits the address family: 0..=32 for IPv4, 0..=128 for IPv6
Fits(v) == v.source_prefix_len <= 8 * Len(v.addr.octets)

FamilyOf(v) == IF v.addr.family = "V4" THEN 1 ELSE 2

HeaderOf(v) == <<0, FamilyOf(v), v.source_prefix_len, v.scope_prefix_len>>

HasHeader(octets) == Len(octets) >= 4

WireFamily(octets) == octets[1] * 256 + octets[2]

\* the name is the apex of the zone or below it
InZone(name) ==
    /\ Len(name) >= Len(apex_name)
    /\ SubSeq(name, Len(name) - Len(apex_name) + 1, Len(name)) = apex_name

\* the rows of the zone, in table order
ZoneRows == SelectSeq(db, LAMBDA row : row.domain = <<"example", ".", "com">>)

OwnerParses(row) == bytes_from_str(row.name).ok
TypeParses(row) == row.rtype \in Rtypes

\* the content does not parse against the declared type of the record
Corrupt(row) == TypeParses(row) /\ ~scan(row.rtype, row.content).ok

WellFormed(row) ==
    OwnerParses(row) /\ TypeParses(row) /\ scan(row.rtype, row.content).ok

\* the visitor call a well-formed row is due
VisitOf(row) ==
    [owner |-> bytes_from_str(row.name).labels,
     rrset |-> [rtype |-> row.rtype, ttl |-> row.ttl,
                data |-> <<[rtype |-> row.rtype, data |-> Head(row.content)]>>]]

WellFormedRows == SelectSeq(ZoneRows, WellFormed)

ExpectedVisits == [i \in 1..Len(WellFormedRows) |-> VisitOf(WellFormedRows[i])]

\* the store holds a record of this name and type in the zone
HoldsRecord(qname, qtype) ==
    \E i \in 1..Len(ZoneRows) :
        /\ OwnerParses(ZoneRows[i])
        /\ bytes_from_str(ZoneRows[i].name).labels = qname
        /\ ZoneRows[i].rtype = qtype

IsQueryAsync == call # None /\ call.op = "query_async"
IsWalkAsync == call # None /\ call.op = "walk_async"

\* ------------------------------------------------------------------------
\* Properties
\* ------------------------------------------------------------------------

\* C1: round trip.  For every ClientSubnet whose source_prefix_len fits its
\* address family, compose does not fail and parse of the octets it wrote
\* succeeds with the same family, the same two prefix lengths and the address
\* with every bit beyond source_prefix_len cleared.
C1_RoundTrip ==
    (value # None /\ Fits(value)) =>
        /\ composed # "Panic"
        /\ (composed = "Ok" /\ parsed # None) =>
            /\ parsed.status = "Ok"
            /\ parsed.value =
                 new(value.source_prefix_len, value.scope_prefix_len,
                     IpAddr(TruncateBits(value.addr.octets, value.source_prefix_len)))

\* C2: encode truncation.  Whenever the builder has room, compose writes
\* family, source_prefix_len, scope_prefix_len and then exactly
\* ceil(source_prefix_len / 8) address octets with the bits beyond
\* source_prefix_len cleared.
C2_EncodeTruncation ==
    (value # None /\ Fits(value) /\ composed \notin {"None", "ShortBuf"}) =>
        /\ composed = "Ok"
        /\ target = HeaderOf(value)
                    \o SubSeq(TruncateBits(value.addr.octets, value.source_prefix_len),
                              1, CeilDiv8(value.source_prefix_len))

\* C3: masking on decode.  Every value parse returns has all address bits
\* beyond source_prefix_len cleared, so that wire inputs agreeing on the
\* header and on the first source_prefix_len address bits decode to equal
\* values; [0,1,22,0,192,0,2] decodes to 192.0.0.0.
C3_MaskingOnDecode ==
    (parsed # None /\ parsed.status = "Ok") =>
        LET v == parsed.value
            n == CeilDiv8(v.source_prefix_len)
            sent == SubSeq(input, 5, 4 + n)
        IN /\ v.addr.octets = TruncateBits(v.addr.octets, v.source_prefix_len)
           /\ \A p \in Payloads :
                LET other == parse(SubSeq(input, 1, 4) \o p)
                IN (/\ other.status = "Ok"
                    /\ TruncateBits(SubSeq(p, 1, n), v.source_prefix_len)
                         = TruncateBits(sent, v.source_prefix_len))
                   => other.value = v
           /\ input = <<0, 1, 22, 0, 192, 0, 2>> => v.addr.octets = <<192, 0, 0, 0>>

C3_Witness ==
    /\ input = <<0, 1, 22, 0, 192, 0, 2>>
    /\ parsed # None
    /\ parsed.status = "Ok"
    /\ parsed.value.addr.octets = <<192, 0, 0, 0>>

\* C4: zero-length prefix.  With source_prefix_len = 0, compose into a
\* builder with room succeeds and writes the four header octets only, and
\* parse of such a four octet input yields the all-zero address of its family.
C4_ZeroPrefix ==
    /\ (value # None /\ value.source_prefix_len = 0
          /\ composed \notin {"None", "ShortBuf"}) =>
            (composed = "Ok" /\ target = HeaderOf(value))
    /\ (parsed # None /\ Len(input) = 4 /\ input[3] = 0
          /\ WireFamily(input) \in {1, 2}) =>
            /\ parsed.status = "Ok"
            /\ parsed.value.addr.octets =
                 Rep(0, IF WireFamily(input) = 1 THEN V4Len ELSE V6Len)

\* C5: byte-aligned prefix.  Whenever source_prefix_len is a multiple of 8,
\* prefix_bytes returns the mask 0xFF without a shift overflow, and compose
\* and parse leave the last transmitted octet as it is.
C5_ByteAligned ==
    /\ (value # None /\ composed # "None" /\ value.source_prefix_len % 8 = 0) =>
            /\ ~prefix_bytes(value.source_prefix_len).panic
            /\ prefix_bytes(value.source_prefix_len).mask = 255
            /\ (Fits(value) /\ composed = "Ok") =>
                 target = HeaderOf(value)
                          \o SubSeq(value.addr.octets, 1, value.source_prefix_len \div 8)
    /\ (parsed # None /\ HasHeader(input) /\ input[3] % 8 = 0) =>
            /\ ~prefix_bytes(input[3]).panic
            /\ prefix_bytes(input[3]).mask = 255
            /\ parsed.status = "Ok" =>
                 SubSeq(parsed.value.addr.octets, 1, input[3] \div 8)
                   = SubSeq(input, 5, 4 + input[3] \div 8)

\* C6: invalid family.  parse of an input of at least four octets whose
\* family is neither 1 nor 2 returns a format error, whatever the other
\* octets are.
C6_InvalidFamily ==
    (parsed # None /\ HasHeader(input) /\ WireFamily(input) \notin {1, 2}) =>
        parsed.status = "FormError"

\* C7: out-of-authority query.  query_async for a name that is neither the
\* apex nor below it returns the OutOfZone error.
C7_OutOfZone ==
    (IsQueryAsync /\ ~InZone(call.qname)) => result.status = "OutOfZone"

C9_NoMatch ==
    IsQueryAsync =>
        /\ (InZone(call.qname) /\ ~HoldsRecord(call.qname, call.qtype)) =>
             result = [status |-> "Ok", answer |-> [rcode |-> "NXDOMAIN", answers |-> <<>>]]
        /\ (result.status = "Ok" /\ result.answer.answers # <<>>) =>
             result.answer.rcode = "NOERROR"

\* a query for a type the queried name has no record of, while it has one
\* of the other type
C9_Witness ==
    /\ IsQueryAsync
    /\ call.qname = <<"www", "example", "com">>
    /\ call.qtype = "TXT"
    /\ HoldsRecord(call.qname, "A")
    /\ ~HoldsRecord(call.qname, "TXT")
    /\ result.status = "Ok"
    /\ result.answer.rcode = "NXDOMAIN"

\* C10: dispatch.  is_async() is true in every state; main, which dispatches
\* on it, only ever calls query_async; query and walk report unimplemented
\* and neither return an Answer nor call the visitor.
C10_Dispatch ==
    /\ is_async = TRUE
    /\ call # None =>
        /\ call.by = "main" => call.op \in {"query_async", "walk_async"}
        /\ call.op \in {"query", "walk"} =>
            /\ result = [status |-> "Panic", msg |-> "not implemented"]
            /\ visits = <<>>

C10_Witness ==
    /\ call # None
    /\ call.by = "main"
    /\ call.op = "query_async"
    /\ result.status = "Ok"
    /\ result.answer.rcode = "NOERROR"

\* C11: compose is total over the values new can build.  For a value whose
\* ceil(source_prefix_len / 8) exceeds the width of its address (4 octets for
\* IPv4, 16 for IPv6) compose still returns Ok or ShortBuf: it does not slice
\* the address octets out of range.
C11_ComposeTotal ==
    (value # None /\ composed # "None"
       /\ CeilDiv8(value.source_prefix_len) > Len(value.addr.octets)) =>
        composed \in {"Ok", "ShortBuf"}

====
